---- MODULE Spec2Model ----
(***************************************************************************)
(* Helpdesk intent routing: UserIntentDetector.get_user_intent,            *)
(* Orchestrator.run, Chat.invoke and its generate() stream, and the        *)
(* search / ticket plugins.  One request is processed at a time; every     *)
(* await of the code (the model reply, the direct-answer call, each chunk  *)
(* of the stream) is a step of its own.                                    *)
(***************************************************************************)
EXTENDS Integers, Sequences, FiniteSets, TLC

\* ------------------------------------------------------------------ bounds
MaxMsgs == 2        \* messages in one request body
MaxChunks == 2      \* chunks the kernel delivers in one stream
MaxDocs == 3        \* documents the index returns to one query
MaxTickets == 3     \* create_ticket calls in one run

\* ---------------------------------------------------------- Python values
NoKey == "<missing>"        \* a key a dict does not hold
None == "<None>"
Unbound == "<unbound>"      \* a local name not assigned yet

SeqsUpTo(S, n) == UNION {[1..k -> S] : k \in 0..n}

\* ----------------------------------------------------------------- Intent
ANSWER_QUESTION == "ANSWER_QUESTION"
CREATE_TICKET == "CREATE_TICKET"
GET_TICKET_STATUS == "GET_TICKET_STATUS"
Intent == {ANSWER_QUESTION, CREATE_TICKET, GET_TICKET_STATUS}

\* ------------------------------------------------------- the request body
GoodContext == "{\"citations\": []}"
BadContext == "citations: none"

EmptyMessage == [role |-> NoKey, content |-> NoKey, context |-> NoKey]

RequestMessage ==
    { [role |-> "user", content |-> "Please open a ticket for me", context |-> NoKey],
      [role |-> "assistant", content |-> "Which category?", context |-> NoKey],
      [role |-> "assistant", content |-> "See the handbook.", context |-> GoodContext],
      [role |-> "assistant", content |-> "See the wiki.", context |-> BadContext],
      [role |-> "tool", content |-> "{\"citations\": [\"doc1\"]}", context |-> NoKey],
      EmptyMessage }

HistoryMetadata == { {<<"conversation_id", "c1">>} }

\* request_body: "messages" and, when has_history_metadata, "history_metadata"
RequestBody ==
    { [messages |-> ms, has_history_metadata |-> TRUE, history_metadata |-> hm] :
          ms \in SeqsUpTo(RequestMessage, MaxMsgs), hm \in HistoryMetadata }
    \cup
    { [messages |-> ms, has_history_metadata |-> FALSE, history_metadata |-> {}] :
          ms \in SeqsUpTo(RequestMessage, MaxMsgs) }

NoRequest == [messages |-> <<>>, has_history_metadata |-> FALSE, history_metadata |-> {}]

\* `if message:` -- an empty dict is falsy
Truthy(message) == message # EmptyMessage

\* --------------------------------------------------------------- json.loads
JsonError == [ok |-> FALSE, type |-> "error", intent |-> NoKey]
JsonObject(intent_value) == [ok |-> TRUE, type |-> "object", intent |-> intent_value]
JsonArray == [ok |-> TRUE, type |-> "array", intent |-> NoKey]
JsonNull == [ok |-> TRUE, type |-> "null", intent |-> NoKey]

\* the texts the model can answer with (before .strip())
ReplyText ==
    { "{\"intent\": \"ANSWER_QUESTION\"}",
      "{\"intent\": \"CREATE_TICKET\"}",
      "  {\"intent\": \"GET_TICKET_STATUS\"}\n",
      "{\"intent\": \"create_ticket\"}",
      "{\"intent\": \"CLOSE_TICKET\"}",
      "{\"label\": \"CREATE_TICKET\"}",
      "[\"CREATE_TICKET\"]",
      "CREATE_TICKET",
      "" }

\* str.strip() on the texts above
strip(s) ==
    IF s = "  {\"intent\": \"GET_TICKET_STATUS\"}\n"
    THEN "{\"intent\": \"GET_TICKET_STATUS\"}"
    ELSE s

\* json.loads on the stripped texts and on the context strings
json_loads(s) ==
    CASE s = "{\"intent\": \"ANSWER_QUESTION\"}" -> JsonObject("ANSWER_QUESTION")
      [] s = "{\"intent\": \"CREATE_TICKET\"}" -> JsonObject("CREATE_TICKET")
      [] s = "{\"intent\": \"GET_TICKET_STATUS\"}" -> JsonObject("GET_TICKET_STATUS")
      [] s = "{\"intent\": \"create_ticket\"}" -> JsonObject("create_ticket")
      [] s = "{\"intent\": \"CLOSE_TICKET\"}" -> JsonObject("CLOSE_TICKET")
      [] s = "{\"label\": \"CREATE_TICKET\"}" -> JsonObject(NoKey)
      [] s = "[\"CREATE_TICKET\"]" -> JsonArray
      [] s = GoodContext -> JsonObject(NoKey)
      [] OTHER -> JsonError

\* ------------------------------------------------- get_user_intent, part 1
\* the loop over request_messages that builds model_args["messages"];
\* raised: json.loads(message["context"]) threw
system_instructions ==
    [role |-> "system", content |-> "identify the user's intent",
     has_context |-> FALSE, context |-> JsonNull]

RECURSIVE build_messages(_, _)
build_messages(request_messages, messages) ==
    IF request_messages = <<>>
    THEN [raised |-> FALSE, messages |-> messages]
    ELSE LET message == Head(request_messages)
             rest == Tail(request_messages)
         IN  IF ~Truthy(message)
             THEN build_messages(rest, messages)
             ELSE IF message.role = "assistant" /\ message.context # NoKey
             THEN LET context_obj == json_loads(message.context)
                  IN  IF ~context_obj.ok
                      THEN [raised |-> TRUE, messages |-> messages]
                      ELSE build_messages(rest,
                               Append(messages,
                                   [role |-> message.role, content |-> message.content,
                                    has_context |-> TRUE, context |-> context_obj]))
             ELSE build_messages(rest,
                      Append(messages,
                          [role |-> message.role, content |-> message.content,
                           has_context |-> FALSE, context |-> JsonNull]))

\* ------------------------------------------------- get_user_intent, part 2
\* what chat.completions...create(**model_args) can do
ModelOutcome ==
    { [kind |-> "api_error", content |-> None],
      [kind |-> "no_choices", content |-> None],
      [kind |-> "content", content |-> None] }
    \cup { [kind |-> "content", content |-> t] : t \in ReplyText }

NoReply == [kind |-> "no call", content |-> None]

\* parse_reply with the label upper-cased before the enum lookup
parse_reply_caseless(outcome) ==
    IF outcome.kind = "api_error" THEN [exc |-> "APIError", intent |-> Unbound]
    ELSE IF outcome.kind = "no_choices" THEN [exc |-> "IndexError", intent |-> Unbound]
    ELSE IF outcome.content = None THEN [exc |-> "AttributeError", intent |-> Unbound]
    ELSE LET as_json == json_loads(strip(outcome.content))
             label == IF as_json.intent = "create_ticket" THEN CREATE_TICKET
                      ELSE as_json.intent
         IN  IF ~as_json.ok THEN [exc |-> "JSONDecodeError", intent |-> Unbound]
             ELSE IF as_json.type # "object" THEN [exc |-> "TypeError", intent |-> Unbound]
             ELSE IF as_json.intent = NoKey THEN [exc |-> "KeyError", intent |-> Unbound]
             ELSE IF label \notin Intent THEN [exc |-> "ValueError", intent |-> Unbound]
             ELSE [exc |-> "none", intent |-> label]

\* lines 78-85: parse the reply; exc names the exception a step raises
parse_reply(outcome) ==
    IF outcome.kind = "api_error" THEN [exc |-> "APIError", intent |-> Unbound]
    ELSE IF outcome.kind = "no_choices" THEN [exc |-> "IndexError", intent |-> Unbound]
    ELSE IF outcome.content = None THEN [exc |-> "AttributeError", intent |-> Unbound]
    ELSE LET as_json == json_loads(strip(outcome.content))
         IN  IF ~as_json.ok THEN [exc |-> "JSONDecodeError", intent |-> Unbound]
             ELSE IF as_json.type # "object" THEN [exc |-> "TypeError", intent |-> Unbound]
             ELSE IF as_json.intent = NoKey THEN [exc |-> "KeyError", intent |-> Unbound]
             ELSE IF as_json.intent \notin Intent
                  THEN [exc |-> "ValueError", intent |-> Unbound]
             ELSE [exc |-> "none", intent |-> as_json.intent]

\* get_user_intent_return with an except clause that catches API errors only
get_user_intent_return_narrow(parsed) ==
    IF parsed.exc = "APIError"
    THEN [exc |-> "none", intent |-> ANSWER_QUESTION, logged |-> parsed.exc]
    ELSE [exc |-> parsed.exc, intent |-> parsed.intent, logged |-> "none"]

\* lines 86-91: `except Exception` catches whatever the try block raised and
\* returns the default; otherwise the parsed intent is returned
get_user_intent_return(parsed) ==
    IF parsed.exc # "none"
    THEN [exc |-> "none", intent |-> ANSWER_QUESTION, logged |-> parsed.exc]
    ELSE [exc |-> "none", intent |-> parsed.intent, logged |-> "none"]

\* ------------------------------------------------------ Orchestrator.run
\* `intent == CREATE_TICKET or GET_TICKET_STATUS`: a non-empty string is truthy
is_ticket_intent_truthy(i) == i = CREATE_TICKET \/ GET_TICKET_STATUS # ""

\* intents that take the Chat path (orchestrator.py line 66)
is_ticket_intent(i) == i = CREATE_TICKET \/ i = GET_TICKET_STATUS

\* positional parameters the callee declares / arguments the call site passes
Chat_create_params == 3             \* chat_id, token_provider, search_service
Chat_create_args == 1               \* Chat.create("helpdesk_assistant")
SearchPlugin_init_params == 3       \* openai_client, search_client, embedding_model
SearchPlugin_init_args == 1         \* AzureAISearchPlugin(search_service)
Chat_invoke_params == 1             \* request_body
Chat_invoke_args == 3               \* execution_settings, request_body, system_message

\* a Python call binds only when every required positional parameter gets
\* an argument and no argument is left over (none of these has a default)
call_binds(args, params) == args = params

QaStream == {"qa_stream_1", "qa_stream_2"}
NoResult == "<no result>"
SessionStream == "session_stream"

\* ------------------------------------------------------------ Chat.invoke
system_message == [role |-> "system", content |-> "AI Helpdesk Assistant"]

\* filter_tool that keeps every message
filter_tool_keep_all(request_messages) == request_messages

\* chat.py lines 198-200: drop the messages whose role is "tool"
RECURSIVE filter_tool(_)
filter_tool(request_messages) ==
    IF request_messages = <<>> THEN <<>>
    ELSE LET message == Head(request_messages)
         IN  IF message.role # "tool"
             THEN <<message>> \o filter_tool(Tail(request_messages))
             ELSE filter_tool(Tail(request_messages))

\* chat.py lines 202-207: add the assistant and user messages to the history
RECURSIVE add_messages(_, _)
add_messages(filtered_messages, history) ==
    IF filtered_messages = <<>> THEN history
    ELSE LET message == Head(filtered_messages)
             rest == Tail(filtered_messages)
         IN  IF Truthy(message) /\ message.role \in {"assistant", "user"}
             THEN add_messages(rest,
                      Append(history, [role |-> message.role, content |-> message.content]))
             ELSE add_messages(rest, history)

\* chat.py lines 193-217: the history and user_input handed to the kernel,
\* or the exception filtered_messages[-1]["content"] raises
chat_invoke(body) ==
    LET filtered_messages == filter_tool(body.messages)
        history == add_messages(filtered_messages, <<system_message>>)
    IN  IF filtered_messages = <<>>
        THEN [exc |-> "IndexError", history |-> history, user_input |-> NoKey]
        ELSE IF filtered_messages[Len(filtered_messages)].content = NoKey
        THEN [exc |-> "KeyError", history |-> history, user_input |-> NoKey]
        ELSE [exc |-> "none", history |-> history,
              user_input |-> filtered_messages[Len(filtered_messages)].content]

\* ------------------------------------------------- Chat.invoke.generate()
\* the raw provider chunk a streaming message carries as inner_content
NoInner == [content |-> "", tool_calls |-> FALSE]

\* message[0] of one item of kernel.invoke_stream
Chunk ==
    { \* assistant text
      [is_streaming |-> TRUE, role |-> "assistant", content |-> "Sure",
       has_inner |-> TRUE, inner_content |-> [content |-> "Sure", tool_calls |-> FALSE]],
      \* a tool-call negotiation step: no text, a function call in the delta
      [is_streaming |-> TRUE, role |-> "assistant", content |-> "",
       has_inner |-> TRUE, inner_content |-> [content |-> "", tool_calls |-> TRUE]],
      \* an assistant delta without text (role-only or finish chunk)
      [is_streaming |-> TRUE, role |-> "assistant", content |-> "",
       has_inner |-> TRUE, inner_content |-> [content |-> "", tool_calls |-> FALSE]],
      \* a tool-role message
      [is_streaming |-> TRUE, role |-> "tool", content |-> "12345",
       has_inner |-> TRUE, inner_content |-> [content |-> "12345", tool_calls |-> FALSE]],
      \* assistant text without a raw chunk attached
      [is_streaming |-> TRUE, role |-> "assistant", content |-> "Done",
       has_inner |-> FALSE, inner_content |-> NoInner],
      \* not a StreamingChatMessageContent
      [is_streaming |-> FALSE, role |-> "assistant", content |-> "Sure",
       has_inner |-> TRUE, inner_content |-> [content |-> "Sure", tool_calls |-> FALSE]] }

\* chat.py lines 228-232: the test that lets a chunk through.  A raw chunk
\* object is truthy whenever it is there.
qualifies(msg) ==
    /\ msg.is_streaming
    /\ msg.role = "assistant"
    /\ msg.has_inner

\* get_history_metadata reading a key the request never holds
get_history_metadata_wrong_key(body) == {}

\* chat.py line 225: request_body.get("history_metadata", {})
get_history_metadata(body) ==
    IF body.has_history_metadata THEN body.history_metadata ELSE {}

\* backend.utils.format_stream_response: the fragment wire shape
format_stream_response(inner_content, history_metadata) ==
    [delta |-> [role |-> "assistant", content |-> inner_content.content],
     history_metadata |-> history_metadata,
     end_turn |-> None]

\* ------------------------------------------------- the plugins' filtering
\* an Optional[float]: {} is None, {x} is the number x
ScoreValue == { {}, {1}, {2} }
\* the thresholds the plugins can be constructed with (kwargs, default 0.0)
MinimumSearchScore == { {}, {2} }
MinimumRerankerScore == { {0}, {2} }

\* `x or 0`
or_zero(x) == IF x = {} THEN 0 ELSE CHOOSE v \in x : TRUE

\* a document of the index, as Document(...) keeps it
IndexDocument == [score : ScoreValue, reranker_score : ScoreValue]

\* what results.by_page() delivers for the documents docs: no page at all
\* (an empty result only), all of them in one page, or two pages cut after k
Paging == {"no page", "one page", "two pages"}
result_pages(docs, paging, k) ==
    CASE paging = "no page" -> <<>>
      [] paging = "one page" -> <<docs>>
      [] paging = "two pages" -> <<SubSeq(docs, 1, k), SubSeq(docs, k + 1, Len(docs))>>

\* passes with `or` between the two comparisons
passes_either(doc, minimum_search_score, minimum_reranker_score) ==
    \/ or_zero(doc.score) >= or_zero(minimum_search_score)
    \/ or_zero(doc.reranker_score) >= or_zero(minimum_reranker_score)

\* search_plugin.py lines 130-133, helix_proxy_plugin.py lines 77-80
passes(doc, minimum_search_score, minimum_reranker_score) ==
    /\ or_zero(doc.score) >= or_zero(minimum_search_score)
    /\ or_zero(doc.reranker_score) >= or_zero(minimum_reranker_score)

\* the list comprehension that builds qualified_documents
RECURSIVE qualified(_, _, _)
qualified(documents, minimum_search_score, minimum_reranker_score) ==
    IF documents = <<>> THEN <<>>
    ELSE LET doc == Head(documents)
             rest == qualified(Tail(documents), minimum_search_score,
                               minimum_reranker_score)
         IN  IF passes(doc, minimum_search_score, minimum_reranker_score)
             THEN <<doc>> \o rest
             ELSE rest

\* the loop over the pages: documents accumulates, qualified_documents is
\* assigned at the end of every page; st is [documents, bound, qualified_documents]
RECURSIVE by_page(_, _, _, _)
by_page(pages, st, minimum_search_score, minimum_reranker_score) ==
    IF pages = <<>> THEN st
    ELSE LET documents == st.documents \o Head(pages)
         IN  by_page(Tail(pages),
                     [documents |-> documents, bound |-> TRUE,
                      qualified_documents |->
                          qualified(documents, minimum_search_score,
                                    minimum_reranker_score)],
                     minimum_search_score, minimum_reranker_score)

\* search_plugin.py lines 113-136 and helix_proxy_plugin.py lines 53-83:
\* `return qualified_documents` reads a name that no page has assigned
search_internal(pages, minimum_search_score, minimum_reranker_score) ==
    LET st == by_page(pages,
                      [documents |-> <<>>, bound |-> FALSE, qualified_documents |-> <<>>],
                      minimum_search_score, minimum_reranker_score)
    IN  IF st.bound
        THEN [exc |-> "none", returned |-> st.qualified_documents]
        ELSE [exc |-> "UnboundLocalError", returned |-> <<>>]

NoCapability ==
    [name |-> "none", pages |-> <<>>, minimum_search_score |-> {},
     minimum_reranker_score |-> {}, exc |-> "none", returned |-> <<>>]

\* ------------------------------------------------------------ create_ticket
TemplateName == {"VPN access", "Cloud storage quota", "Password reset"}
DetailedDescription == {"Name of the user: Max", "Name of the user: Erika"}
TicketId == 12345

\* helix_proxy_plugin.py lines 112-132: the payload built and the JSON
\* object returned; the request itself is commented out, so nothing in the
\* try block raises RequestException
create_ticket(template_name, detailed_description) ==
    [template_name |-> template_name,
     detailed_description |-> detailed_description,
     payload |-> [description |-> template_name],
     response |-> [ticket_id |-> TicketId, status |-> "success"]]

\* the classification call asked for as a stream
classification_call_streamed == [api |-> "chat.completions.create", stream |-> TRUE]

\* intent_detection.py lines 70-80: the classification call, not streamed
classification_call == [api |-> "chat.completions.create", stream |-> FALSE]
\* chat.py lines 220-224: the generation call, streamed
generation_call == [api |-> "kernel.invoke_stream", stream |-> TRUE]

VARIABLES
    pc,                 \* where the request's processing stands
    request_body,       \* the inbound request
    intent,             \* Orchestrator.run's local `intent`
    llm_messages,       \* model_args["messages"] of the classification call
    classifier_calls,   \* classification model calls made
    model_reply,        \* what the classification call did
    log,                \* logging.error records
    qa_calls,           \* times run_aoai_on_your_data_fn was called
    qa_returned,        \* what run_aoai_on_your_data_fn returned
    chat_create_calls,  \* times Chat.create was called
    result,             \* what Orchestrator.run / Chat.invoke returned
    exception,          \* the exception raised to the caller
    path_raised,        \* the exception caught by Orchestrator.run's except clause
    model_calls,        \* the language-model calls started, in order
    chat_history,       \* arguments["chat_history"]
    user_input,         \* arguments["user_input"]
    gen_pc,             \* the generate() generator: none, created, running,
                        \* suspended (at its yield), done, failed
    generation_calls,   \* kernel.invoke_stream calls started
    chunks,             \* the chunks the kernel has delivered, in order
    emitted,            \* the fragments yielded, each with the index of its chunk
    capability,         \* the last search / get_ticket_templates call
    tickets             \* the create_ticket calls and their results, in order

orchestrator_vars == <<intent, llm_messages, classifier_calls, model_reply, log, qa_calls,
                       qa_returned, chat_create_calls, path_raised>>
chat_vars == <<chat_history, user_input, gen_pc, generation_calls, chunks, emitted>>

plugin_vars == <<capability, tickets>>

vars == <<pc, request_body, result, exception, model_calls, orchestrator_vars, chat_vars,
          plugin_vars>>

Init ==
    /\ pc = "idle"
    /\ request_body = NoRequest
    /\ intent = Unbound
    /\ llm_messages = <<>>
    /\ classifier_calls = 0
    /\ model_reply = NoReply
    /\ log = <<>>
    /\ qa_calls = 0
    /\ qa_returned = NoResult
    /\ chat_create_calls = 0
    /\ result = NoResult
    /\ exception = "none"
    /\ path_raised = "none"
    /\ model_calls = <<>>
    /\ chat_history = <<>>
    /\ user_input = NoKey
    /\ gen_pc = "none"
    /\ generation_calls = 0
    /\ chunks = <<>>
    /\ emitted = <<>>
    /\ capability = NoCapability
    /\ tickets = <<>>

\* ------------------------------------------------- Orchestrator.run, except
\* orchestrator.py lines 75-77: the log line formats `intent`; when the
\* exception came before `intent` was assigned, formatting it raises
orchestrator_error(exc) == [source |-> "Orchestrator", error |-> exc, intent |-> intent]

\* a variant whose except clause logs and then returns nothing
RunRaises_swallows(exc) ==
    /\ log' = Append(log, orchestrator_error(exc))
    /\ exception' = "none"
    /\ path_raised' = exc
    /\ pc' = "run_returned"
    /\ result' = NoResult

RunRaises(exc) ==
    /\ IF intent = Unbound
       THEN /\ exception' = "UnboundLocalError"
            /\ UNCHANGED log
       ELSE /\ log' = Append(log, orchestrator_error(exc))
            /\ exception' = exc
    /\ path_raised' = exc
    /\ pc' = "run_raised"
    /\ result' = NoResult

\* --------------------------------------------------- get_user_intent steps
\* logging.error(f"Error in get_user_intent: {e}")
classifier_error(exc) == [source |-> "get_user_intent", error |-> exc, intent |-> NoKey]

\* get_user_intent hands r to Orchestrator.run: the intent is assigned, or
\* the exception lands in run's except branch
GetUserIntentReturns(r) ==
    IF r.exc # "none"
    THEN /\ RunRaises(r.exc)
         /\ UNCHANGED intent
    ELSE /\ intent' = r.intent
         /\ log' = IF r.logged # "none" THEN Append(log, classifier_error(r.logged)) ELSE log
         /\ pc' = "routing"
         /\ UNCHANGED <<result, exception, path_raised>>

\* Orchestrator.run up to the await inside get_user_intent: read the
\* messages, build model_args and start the model call -- or, when building
\* them raises, take get_user_intent's except branch at once
OrchestratorRun(body) ==
    /\ pc = "idle"
    /\ request_body' = body
    /\ LET built == build_messages(body.messages, <<system_instructions>>)
       IN  IF built.raised
           THEN /\ GetUserIntentReturns(
                       get_user_intent_return([exc |-> "JSONDecodeError", intent |-> Unbound]))
                /\ UNCHANGED <<llm_messages, classifier_calls, model_calls>>
           ELSE /\ llm_messages' = built.messages
                /\ classifier_calls' = classifier_calls + 1
                /\ model_calls' = Append(model_calls, classification_call)
                /\ pc' = "classifying"
                /\ UNCHANGED <<log, intent, result, exception, path_raised>>
    /\ UNCHANGED <<model_reply, qa_calls, qa_returned, chat_create_calls, chat_vars, plugin_vars>>

\* the model call returns or raises; get_user_intent parses and returns
GetUserIntentReply(outcome) ==
    /\ pc = "classifying"
    /\ model_reply' = outcome
    /\ GetUserIntentReturns(get_user_intent_return(parse_reply(outcome)))
    /\ UNCHANGED <<request_body, llm_messages, classifier_calls, qa_calls, qa_returned,
                   chat_create_calls, model_calls, chat_vars, plugin_vars>>

\* ------------------------------------------------- Orchestrator.run, routes
\* the first call of the ticket path that does not bind its arguments
ticket_path_error ==
    IF ~call_binds(Chat_create_args, Chat_create_params) THEN "TypeError"
    ELSE IF ~call_binds(SearchPlugin_init_args, SearchPlugin_init_params) THEN "TypeError"
    ELSE IF ~call_binds(Chat_invoke_args, Chat_invoke_params) THEN "TypeError"
    ELSE "none"

\* orchestrator.py lines 66-72
RunTicketPath ==
    /\ pc = "routing"
    /\ is_ticket_intent(intent)
    /\ chat_create_calls' = chat_create_calls + 1
    /\ IF ticket_path_error # "none"
       THEN /\ RunRaises(ticket_path_error)
            /\ UNCHANGED chat_vars
       ELSE LET inv == chat_invoke(request_body)
            IN  IF inv.exc # "none"
                THEN /\ RunRaises(inv.exc)
                     /\ UNCHANGED chat_vars
                ELSE /\ chat_history' = inv.history
                     /\ user_input' = inv.user_input
                     /\ gen_pc' = "created"
                     /\ result' = SessionStream
                     /\ pc' = "run_returned"
                     /\ UNCHANGED <<log, exception, path_raised, generation_calls, chunks,
                                    emitted>>
    /\ UNCHANGED <<request_body, intent, llm_messages, classifier_calls, model_reply,
                   qa_calls, qa_returned, model_calls, plugin_vars>>

\* orchestrator.py lines 73-74, the function returning a stream
RunDirectAnswer(stream) ==
    /\ pc = "routing"
    /\ ~is_ticket_intent(intent)
    /\ qa_calls' = qa_calls + 1
    /\ qa_returned' = stream
    /\ result' = stream
    /\ pc' = "run_returned"
    /\ UNCHANGED <<request_body, intent, llm_messages, classifier_calls, model_reply, log,
                   chat_create_calls, exception, path_raised, model_calls, chat_vars,
                   plugin_vars>>

\* what run_aoai_on_your_data_fn can raise
QaError == {"ServiceError", "TimeoutError"}

\* orchestrator.py lines 73-77, the function raising
RunDirectAnswerFails(exc) ==
    /\ pc = "routing"
    /\ ~is_ticket_intent(intent)
    /\ qa_calls' = qa_calls + 1
    /\ RunRaises(exc)
    /\ UNCHANGED <<request_body, intent, llm_messages, classifier_calls, model_reply,
                   qa_returned, chat_create_calls, model_calls, chat_vars, plugin_vars>>

NextOrchestrator ==
    \/ pc = "idle" /\ \E body \in RequestBody : OrchestratorRun(body)
    \/ \E outcome \in ModelOutcome : GetUserIntentReply(outcome)
    \/ RunTicketPath
    \/ \E stream \in QaStream : RunDirectAnswer(stream)
    \/ \E exc \in QaError : RunDirectAnswerFails(exc)

Spec == Init /\ [][NextOrchestrator]_vars

\* ------------------------------------------------------ Chat.invoke steps
\* chat.py lines 189-235: Chat.invoke called on a Chat object; it returns
\* the generator generate() without starting it
ChatInvoke(body) ==
    /\ pc = "idle"
    /\ request_body' = body
    /\ LET inv == chat_invoke(body)
       IN  IF inv.exc # "none"
           THEN /\ exception' = inv.exc
                /\ pc' = "invoke_raised"
                /\ UNCHANGED <<result, chat_vars>>
           ELSE /\ chat_history' = inv.history
                /\ user_input' = inv.user_input
                /\ gen_pc' = "created"
                /\ result' = SessionStream
                /\ pc' = "invoke_returned"
                /\ UNCHANGED <<exception, generation_calls, chunks, emitted>>
    /\ UNCHANGED <<model_calls, orchestrator_vars, plugin_vars>>

\* the consumer asks the stream for its next fragment; the first request
\* starts kernel.invoke_stream
GenerateResume ==
    /\ gen_pc \in {"created", "suspended"}
    /\ gen_pc' = "running"
    /\ generation_calls' = IF gen_pc = "created" THEN generation_calls + 1
                           ELSE generation_calls
    /\ model_calls' = IF gen_pc = "created" THEN Append(model_calls, generation_call)
                      ELSE model_calls
    /\ UNCHANGED <<pc, request_body, result, exception, orchestrator_vars, plugin_vars,
                   chat_history, user_input, chunks, emitted>>

\* chat.py lines 228-233: `yield` suspends generate() until the consumer asks
\* again; a chunk that fails the test lets the loop pull the next one
after_chunk(msg) == IF qualifies(msg) THEN "suspended" ELSE "running"

\* chat.py lines 220-233: one pass of the async for body
GenerateChunk(msg) ==
    /\ gen_pc = "running"
    /\ Len(chunks) < MaxChunks
    /\ chunks' = Append(chunks, msg)
    /\ LET history_metadata == get_history_metadata(request_body)
       IN  IF qualifies(msg)
           THEN /\ emitted' = Append(emitted,
                        [chunk |-> Len(chunks) + 1,
                         fragment |-> format_stream_response(msg.inner_content,
                                                             history_metadata)])
           ELSE /\ UNCHANGED emitted
    /\ gen_pc' = after_chunk(msg)
    /\ UNCHANGED <<pc, request_body, result, exception, orchestrator_vars, plugin_vars,
                   chat_history, user_input, generation_calls, model_calls>>

\* kernel.invoke_stream is exhausted: the generator ends
GenerateEnd ==
    /\ gen_pc = "running"
    /\ gen_pc' = "done"
    /\ UNCHANGED <<pc, request_body, result, exception, orchestrator_vars, plugin_vars,
                   chat_history, user_input, generation_calls, chunks, emitted, model_calls>>

\* kernel.invoke_stream raises: the exception reaches the consumer
GenerateRaise ==
    /\ gen_pc = "running"
    /\ gen_pc' = "failed"
    /\ exception' = "ServiceError"
    /\ UNCHANGED <<pc, request_body, result, orchestrator_vars, plugin_vars,
                   chat_history, user_input, generation_calls, chunks, emitted, model_calls>>

\* the consumer stops asking for fragments; generate() stays suspended at
\* its yield (chat.py line 233) with kernel.invoke_stream open.  The consumer
\* either keeps the stream object or lets go of it.
ConsumerAbandon(keeps) ==
    /\ gen_pc = "suspended"
    /\ gen_pc' = IF keeps THEN "abandoned" ELSE "unreferenced"
    /\ UNCHANGED <<pc, request_body, result, exception, orchestrator_vars, plugin_vars,
                   chat_history, user_input, generation_calls, chunks, emitted, model_calls>>

\* generate() has no try/finally and nothing closes kernel.invoke_stream
\* (chat.py lines 219-233): only the event loop's finalizer for an
\* unreachable async generator ends it
AsyncgenFinalize ==
    /\ gen_pc = "unreferenced"
    /\ gen_pc' = "closed"
    /\ UNCHANGED <<pc, request_body, result, exception, orchestrator_vars, plugin_vars,
                   chat_history, user_input, generation_calls, chunks, emitted, model_calls>>

NextChat ==
    \/ pc = "idle" /\ \E body \in RequestBody : ChatInvoke(body)
    \/ GenerateResume
    \/ gen_pc = "running" /\ \E msg \in Chunk : GenerateChunk(msg)
    \/ GenerateEnd
    \/ GenerateRaise
    \/ \E keeps \in BOOLEAN : ConsumerAbandon(keeps)
    \/ AsyncgenFinalize

SpecChat == Init /\ [][NextChat]_vars

\* ----------------------------------------------------------- plugin calls
other_vars == <<request_body, result, exception, model_calls, orchestrator_vars, chat_vars>>

\* AzureAISearchPlugin.search -> __search_internal
Search(pages, minimum_search_score, minimum_reranker_score) ==
    /\ pc = "idle"
    /\ LET r == search_internal(pages, minimum_search_score, minimum_reranker_score)
       IN  capability' = [name |-> "search", pages |-> pages,
                          minimum_search_score |-> minimum_search_score,
                          minimum_reranker_score |-> minimum_reranker_score,
                          exc |-> r.exc, returned |-> r.returned]
    /\ pc' = "capability_done"
    /\ UNCHANGED <<other_vars, tickets>>

\* HelixProxyPlugin.get_ticket_templates
GetTicketTemplates(pages, minimum_search_score, minimum_reranker_score) ==
    /\ pc = "idle"
    /\ LET r == search_internal(pages, minimum_search_score, minimum_reranker_score)
       IN  capability' = [name |-> "get_ticket_templates", pages |-> pages,
                          minimum_search_score |-> minimum_search_score,
                          minimum_reranker_score |-> minimum_reranker_score,
                          exc |-> r.exc, returned |-> r.returned]
    /\ pc' = "capability_done"
    /\ UNCHANGED <<other_vars, tickets>>

\* the result sets the index can answer with
IndexAnswers(n, docs, paging, k) ==
    /\ docs \in [1..n -> IndexDocument]
    /\ paging = "no page" => n = 0
    /\ paging # "two pages" => k = 0

NextSearch ==
    \/ /\ pc = "idle"
       /\ \E n \in 0..MaxDocs : \E docs \in [1..n -> IndexDocument] :
          \E paging \in Paging, k \in 0..n :
          \E ms \in MinimumSearchScore, mr \in MinimumRerankerScore :
             /\ IndexAnswers(n, docs, paging, k)
             /\ Search(result_pages(docs, paging, k), ms, mr)
    \/ /\ pc = "idle"
       /\ \E n \in 0..MaxDocs : \E docs \in [1..n -> IndexDocument] :
          \E paging \in Paging, k \in 0..n :
          \E ms \in MinimumSearchScore, mr \in MinimumRerankerScore :
             /\ IndexAnswers(n, docs, paging, k)
             /\ GetTicketTemplates(result_pages(docs, paging, k), ms, mr)

SpecSearch == Init /\ [][NextSearch]_vars

\* HelixProxyPlugin.create_ticket
\* what a request to the Helix API would meet at the time of the call
HelixApi == {"reachable", "unreachable"}

\* one call of create_ticket, recorded with the state of the Helix API it
\* ran against; the function never contacts it (lines 122-123 are comments)
CreateTicket(template_name, detailed_description, helix_api) ==
    /\ pc \in {"idle", "ticketing"}
    /\ Len(tickets) < MaxTickets
    /\ tickets' = Append(tickets, [helix_api |-> helix_api]
                                      @@ create_ticket(template_name, detailed_description))
    /\ pc' = "ticketing"
    /\ UNCHANGED <<other_vars, capability>>

NextTicket ==
    \E template_name \in TemplateName, detailed_description \in DetailedDescription,
       helix_api \in HelixApi :
        CreateTicket(template_name, detailed_description, helix_api)

SpecTicket == Init /\ [][NextTicket]_vars

\* =================================================================== claims
RunOver == pc \in {"routing", "run_returned", "run_raised"}
RunEnded == pc \in {"run_returned", "run_raised"}

OnlyUserAssistant(messages) ==
    \A i \in DOMAIN messages : messages[i].role \in {"user", "assistant"}

\* the replies that carry one of the three labels as {"intent": ...}
WellFormedReply ==
    { "{\"intent\": \"ANSWER_QUESTION\"}",
      "{\"intent\": \"CREATE_TICKET\"}",
      "  {\"intent\": \"GET_TICKET_STATUS\"}\n" }

ContextUnparseable ==
    \E i \in DOMAIN request_body.messages :
        /\ request_body.messages[i].role = "assistant"
        /\ request_body.messages[i].context = BadContext

ReplyFails ==
    /\ model_reply # NoReply
    /\ \/ model_reply.kind # "content"
       \/ model_reply.content \notin WellFormedReply

LoggedBy(source) == \E i \in DOMAIN log : log[i].source = source

\* C1: for a request holding only user and assistant messages, whatever the
\* model call does, get_user_intent has handed Orchestrator.run one of the
\* three intents once classification is over; no exception of it reaches run.
C1_IntentIsTotal ==
    (RunOver /\ OnlyUserAssistant(request_body.messages)) => intent \in Intent

C1_Witness ==
    /\ pc = "routing"
    /\ Len(request_body.messages) = 2
    /\ OnlyUserAssistant(request_body.messages)
    /\ model_reply.content = "  {\"intent\": \"GET_TICKET_STATUS\"}\n"
    /\ intent = GET_TICKET_STATUS

\* C2: whenever classification fails (the call raises, the reply is not
\* JSON, has no "intent" key, carries a label outside the three, or a
\* context field does not parse), the intent is ANSWER_QUESTION and
\* get_user_intent has logged an error.
C2_FailsOpen ==
    (RunOver /\ (ContextUnparseable \/ ReplyFails)) =>
        (intent = ANSWER_QUESTION /\ LoggedBy("get_user_intent"))

C2_Witness ==
    /\ pc = "routing"
    /\ model_reply.content = "{\"intent\": \"create_ticket\"}"
    /\ intent = ANSWER_QUESTION
    /\ LoggedBy("get_user_intent")

\* C3: when the classifier returned CREATE_TICKET or GET_TICKET_STATUS,
\* Orchestrator.run ends by returning the session's stream, without raising.
C3_TicketPathReturnsSession ==
    (RunEnded /\ intent \in {CREATE_TICKET, GET_TICKET_STATUS}) =>
        (pc = "run_returned" /\ result = SessionStream /\ exception = "none")

\* C4: when the intent is ANSWER_QUESTION, Orchestrator.run has called the
\* direct-answer function exactly once, returns the very stream it gave, and
\* has created no session and invoked no capability; the function is never
\* called more than once.
C4_DelegatesUntouched ==
    /\ qa_calls <= 1
    /\ (RunEnded /\ intent = ANSWER_QUESTION) =>
           /\ qa_calls = 1
           /\ chat_create_calls = 0
           /\ gen_pc = "none" /\ generation_calls = 0
           /\ capability = NoCapability /\ tickets = <<>>
           /\ pc = "run_returned" => (result \in QaStream /\ result = qa_returned)

C4_Witness ==
    /\ pc = "run_returned"
    /\ intent = ANSWER_QUESTION
    /\ model_reply.kind = "api_error"
    /\ result = "qa_stream_2"

\* C5: the message list sent to the model by the classifier holds no
\* tool-role message.
C5_NoToolInClassification ==
    \A i \in DOMAIN llm_messages : llm_messages[i].role # "tool"

\* the contents of the request's tool-role messages
ToolContents ==
    { request_body.messages[j].content :
          j \in { k \in DOMAIN request_body.messages :
                      request_body.messages[k].role = "tool" } }

\* C6: nothing Chat.invoke hands to the model (the rebuilt history and the
\* active turn's input) is, or carries the content of, a tool-role message
\* of the request.
C6_NoToolInHistory ==
    gen_pc # "none" =>
        /\ \A i \in DOMAIN chat_history :
               /\ chat_history[i].role # "tool"
               /\ chat_history[i].content \notin ToolContents
        /\ user_input \notin ToolContents

C6_Witness ==
    /\ generation_calls = 1
    /\ Len(request_body.messages) = 2
    /\ request_body.messages[2].role = "tool"
    /\ Len(chat_history) = 2

\* C7: every fragment yielded comes from a chunk whose role is assistant and
\* whose content is non-empty, and none from a tool-call negotiation step.
C7_OnlyAssistantText ==
    \A i \in DOMAIN emitted :
        LET msg == chunks[emitted[i].chunk]
        IN  /\ msg.role = "assistant"
            /\ msg.content # ""
            /\ ~msg.inner_content.tool_calls

\* C8: every fragment of one request carries the request's
\* history_metadata (the empty mapping when the request holds none).
C8_MetadataPreserved ==
    \A i \in DOMAIN emitted :
        /\ request_body.has_history_metadata =>
               emitted[i].fragment.history_metadata = request_body.history_metadata
        /\ ~request_body.has_history_metadata =>
               emitted[i].fragment.history_metadata = {}

C8_Witness ==
    /\ Len(emitted) = 2
    /\ request_body.has_history_metadata
    /\ emitted[2].fragment.history_metadata = {<<"conversation_id", "c1">>}

\* the documents of all pages, in order
RECURSIVE AllDocuments(_)
AllDocuments(pages) ==
    IF pages = <<>> THEN <<>> ELSE Head(pages) \o AllDocuments(Tail(pages))

\* a score or threshold as a number, an absent one counting as 0
AsNumber(x) == IF x = {} THEN 0 ELSE CHOOSE v \in x : TRUE

AtOrAboveBoth(doc) ==
    /\ AsNumber(doc.score) >= AsNumber(capability.minimum_search_score)
    /\ AsNumber(doc.reranker_score) >= AsNumber(capability.minimum_reranker_score)

\* C9: what search and get_ticket_templates return is exactly the
\* documents of the result set that are at or above both thresholds, in
\* their order: one below either threshold is absent, one at or above both
\* is present (an absent score or threshold counting as 0).
C9_ThresholdFilter ==
    (capability.name # "none" /\ capability.exc = "none") =>
        capability.returned = SelectSeq(AllDocuments(capability.pages), AtOrAboveBoth)

C9_Witness ==
    /\ capability.name = "get_ticket_templates"
    /\ capability.exc = "none"
    /\ capability.minimum_search_score = {2}
    /\ capability.minimum_reranker_score = {2}
    /\ Len(AllDocuments(capability.pages)) = 3
    /\ Len(capability.returned) = 1

\* C10: two create_ticket calls with the same template_name and the same
\* detailed_description both report success, carry distinct ticket ids, and
\* send the template_name unchanged.
C10_IndependentTicketIds ==
    \A i, j \in DOMAIN tickets :
        (/\ i < j
         /\ tickets[i].template_name = tickets[j].template_name
         /\ tickets[i].detailed_description = tickets[j].detailed_description) =>
            /\ tickets[i].response.status = "success"
            /\ tickets[j].response.status = "success"
            /\ tickets[i].response.ticket_id # tickets[j].response.ticket_id
            /\ tickets[i].payload.description = tickets[i].template_name

OrchestratorLogs == { i \in DOMAIN log : log[i].source = "Orchestrator" }

\* C11: when a path raises inside Orchestrator.run, the run ends by raising
\* that same exception, returns no stream, and has logged exactly one
\* orchestrator error, which carries the exception and the detected intent;
\* without a failure the orchestrator logs nothing.
C11_LogsAndReraises ==
    /\ path_raised # "none" =>
           /\ pc = "run_raised"
           /\ exception = path_raised
           /\ result = NoResult
           /\ intent \in Intent
           /\ Cardinality(OrchestratorLogs) = 1
           /\ \A i \in OrchestratorLogs :
                  log[i].error = path_raised /\ log[i].intent = intent
    /\ path_raised = "none" => OrchestratorLogs = {}

C11_Witness ==
    /\ pc = "run_raised"
    /\ path_raised = "TimeoutError"
    /\ intent = ANSWER_QUESTION
    /\ qa_calls = 1
    /\ log = <<orchestrator_error("TimeoutError")>>

\* a request with no user turn to process: no messages at all, or none of
\* them from the user
NoUserTurn(messages) == \A i \in DOMAIN messages : messages[i].role # "user"

\* C12: for a request with an empty message list or without a user turn,
\* no language-model call, classification or generation, is ever started,
\* and the run ends by raising a "no user input to process" error.
C12_MalformedRejected ==
    (pc # "idle" /\ NoUserTurn(request_body.messages)) =>
        /\ model_calls = <<>>
        /\ classifier_calls = 0
        /\ RunEnded => exception = "NoUserInput"

\* the generation call has been started and has neither finished nor been
\* closed
GenerationOutstanding ==
    generation_calls > 0 /\ gen_pc \notin {"done", "failed", "closed"}

ConsumerAbandoned == gen_pc \in {"abandoned", "unreferenced"}

\* C13: once the consumer has stopped iterating the stream, the generation
\* call does not stay outstanding: while it is, a step that leads to its
\* release is still to come.
C13_AbandonedIsReleased ==
    (ConsumerAbandoned /\ GenerationOutstanding) => ENABLED NextChat

EmittedChunks == { emitted[i].chunk : i \in DOMAIN emitted }

\* a chunk that qualifies for the caller: written by the assistant, with
\* content, and no tool-call negotiation step
AssistantText(msg) ==
    msg.role = "assistant" /\ msg.content # "" /\ ~msg.inner_content.tool_calls

\* C14: the fragments are those of the qualifying chunks, in the chunks'
\* order, and a qualifying chunk is handed to the consumer, the generator
\* suspended, before the next chunk is pulled.
C14_OrderedAndIncremental ==
    /\ [](/\ EmittedChunks = { k \in DOMAIN chunks : AssistantText(chunks[k]) }
          /\ \A i, j \in DOMAIN emitted : i < j => emitted[i].chunk < emitted[j].chunk)
    /\ [][Len(chunks') > Len(chunks) =>
              /\ gen_pc = "running"
              /\ Len(chunks') = Len(chunks) + 1
              /\ AssistantText(chunks'[Len(chunks')]) =>
                     /\ gen_pc' = "suspended"
                     /\ Len(emitted') = Len(emitted) + 1
                     /\ emitted'[Len(emitted')].chunk = Len(chunks')]_vars

\* C15: every call of create_ticket returns a result whose status is success
\* or error, and a call made while the ticketing API cannot be reached
\* returns status error.
C15_TransportErrorReported ==
    \A i \in DOMAIN tickets :
        /\ tickets[i].response.status \in {"success", "error"}
        /\ tickets[i].helix_api = "unreachable" => tickets[i].response.status = "error"

PathsStarted == qa_calls + chat_create_calls

\* C16 as stated: once classification is over the classifier has made
\* exactly one model call, not streamed; at most one path is started, and
\* none before the intent is resolved.
C16_ExactlyOneCall ==
    /\ RunOver => (classifier_calls = 1 /\ model_calls = <<classification_call>>)
    /\ PathsStarted <= 1
    /\ PathsStarted > 0 => (RunEnded /\ intent \in Intent)

\* C16, amended: the classifier makes at most one model call, not streamed
\* -- exactly one unless the context of an assistant message cannot be
\* parsed, in which case it makes none and the intent is ANSWER_QUESTION;
\* the call has been answered before a path is started; at most one path
\* is started, and none before the intent is resolved.
C16_AtMostOneCall ==
    /\ classifier_calls <= 1
    /\ Len(model_calls) = classifier_calls
    /\ \A i \in DOMAIN model_calls :
           model_calls[i].api = "chat.completions.create" /\ ~model_calls[i].stream
    /\ pc # "idle" => (classifier_calls = 0 <=> ContextUnparseable)
    /\ (RunOver /\ ContextUnparseable) => intent = ANSWER_QUESTION
    /\ PathsStarted <= 1
    /\ PathsStarted > 0 =>
           /\ RunEnded
           /\ intent \in Intent
           /\ classifier_calls = 1 => model_reply # NoReply

C16_Witness ==
    /\ pc = "run_returned"
    /\ ContextUnparseable
    /\ classifier_calls = 0
    /\ model_calls = <<>>
    /\ qa_calls = 1
    /\ chat_create_calls = 0

HasUserMessage(messages) == \E i \in DOMAIN messages : messages[i].role = "user"

\* the content of the most recent user-role message
LatestUserContent(messages) ==
    LET last == CHOOSE i \in DOMAIN messages :
                    /\ messages[i].role = "user"
                    /\ \A j \in DOMAIN messages : messages[j].role = "user" => j <= i
    IN  messages[last].content

\* the request's non-tool messages, in order, as role and content
NonToolMessages(messages) ==
    LET kept == SelectSeq(messages, LAMBDA m : Truthy(m) /\ m.role # "tool")
    IN  [i \in 1..Len(kept) |-> [role |-> kept[i].role, content |-> kept[i].content]]

\* C17: for a request with at least one user message, Chat.invoke returns
\* its stream with a history made of the system instruction followed by the
\* request's non-tool messages in order, and with the content of the most
\* recent user-role message as the active turn's input.
C17_HistoryAndLatestUserInput ==
    (pc # "idle" /\ HasUserMessage(request_body.messages)) =>
        /\ pc = "invoke_returned"
        /\ chat_history = <<system_message>> \o NonToolMessages(request_body.messages)
        /\ user_input = LatestUserContent(request_body.messages)

\* C18: whatever the index returns, also a result that delivers no page,
\* search and get_ticket_templates do not raise, and they return a sequence
\* of documents, which is empty when no document is delivered.
C18_AlwaysReturnsSequence ==
    capability.name # "none" =>
        /\ capability.exc = "none"
        /\ AllDocuments(capability.pages) = <<>> => capability.returned = <<>>

====
